---- MODULE Spec2Model ----
(***************************************************************************)
(* Label normalisation and tree post-processing of ProLink                 *)
(* (ProLink/modules/subprocess_functions.py): clean_label,                 *)
(* clean_newick_string, align and tree.                                    *)
(*                                                                         *)
(* A text is a sequence of one-character strings.  The regular expressions *)
(* of the source are written as syntax trees and matched by a backtracking *)
(* matcher that tries alternatives in order and repetitions greedily, as   *)
(* Python's re module does.                                                *)
(***************************************************************************)
EXTENDS Integers, Sequences, FiniteSets, TLC

\* ------------------------------------------------------------ characters

UpperSeq == <<"A", "B", "C", "D", "E", "F", "G", "H", "I", "J", "K", "L", "M",
              "N", "O", "P", "Q", "R", "S", "T", "U", "V", "W", "X", "Y", "Z">>
LowerSeq == <<"a", "b", "c", "d", "e", "f", "g", "h", "i", "j", "k", "l", "m",
              "n", "o", "p", "q", "r", "s", "t", "u", "v", "w", "x", "y", "z">>
Upper == {UpperSeq[i] : i \in 1..26}
Lower == {LowerSeq[i] : i \in 1..26}
Digit == {"0", "1", "2", "3", "4", "5", "6", "7", "8", "9"}
\* The characters of a text are those a string of this module can hold:
\* Latin-1 (U+0000 to U+00FF).
\* \s on a str pattern, and str.strip(): space, \t, \n, \r, \f and, written
\* as the characters themselves on the second line, U+000B, U+001C, U+001D,
\* U+001E, U+001F, U+0085 and U+00A0
Whitespace == {" ", "\t", "\n", "\r", "\f",
               "", "", "", "", "", "", " "}
\* the letters beyond ASCII that have both cases in Latin-1
UpperLatin == <<"À", "Á", "Â", "Ã", "Ä", "Å", "Æ", "Ç", "È", "É", "Ê", "Ë", "Ì", "Í", "Î",
                "Ï", "Ð", "Ñ", "Ò", "Ó", "Ô", "Õ", "Ö", "Ø", "Ù", "Ú", "Û", "Ü", "Ý", "Þ">>
LowerLatin == <<"à", "á", "â", "ã", "ä", "å", "æ", "ç", "è", "é", "ê", "ë", "ì", "í", "î",
                "ï", "ð", "ñ", "ò", "ó", "ô", "õ", "ö", "ø", "ù", "ú", "û", "ü", "ý", "þ">>
\* \w on a str pattern: letters, digits and numerals of Unicode, and "_"
WordChar ==
    Upper \cup Lower \cup Digit \cup {"_"}
    \cup {UpperLatin[i] : i \in 1..Len(UpperLatin)}
    \cup {LowerLatin[i] : i \in 1..Len(LowerLatin)}
    \cup {"ª", "²", "³", "µ", "¹", "º", "¼", "½", "¾", "ß", "ÿ"}

\* re.IGNORECASE compares characters after lower-casing them
CasedUpper == UpperSeq \o UpperLatin
CasedLower == LowerSeq \o LowerLatin
LowerOf ==
    [c \in {CasedUpper[i] : i \in 1..Len(CasedUpper)} |->
        CasedLower[CHOOSE i \in 1..Len(CasedUpper) : CasedUpper[i] = c]]
ToLower(c) == IF c \in DOMAIN LowerOf THEN LowerOf[c] ELSE c
\* the characters that lower-case to the same character as c
Cased == DOMAIN LowerOf \cup {CasedLower[i] : i \in 1..Len(CasedLower)}
CaseClassOf == [c \in Cased |-> {d \in Cased : ToLower(d) = ToLower(c)}]
CaseClass(c) == IF c \in Cased THEN CaseClassOf[c] ELSE {c}

\* c matches one of the characters cs, with re.IGNORECASE if ic
CharIn(c, cs, ic) == c \in cs \/ (ic /\ CaseClass(c) \cap cs # {})

Min(S) == CHOOSE x \in S : \A y \in S : x <= y
Max(S) == CHOOSE x \in S : \A y \in S : x >= y

\* ------------------------------------------------- regular expressions

Set(cs) == [t |-> "set", cs |-> cs, neg |-> FALSE]
NotSet(cs) == [t |-> "set", cs |-> cs, neg |-> TRUE]
Lit(text) == [t |-> "lit", text |-> text]
Cat(rs) == [t |-> "cat", rs |-> rs]
Alt(rs) == [t |-> "alt", rs |-> rs]
\* r{lo,hi}, greedy; hi = -1 stands for no upper limit
Rep(r, lo, hi) == [t |-> "rep", r |-> r, lo |-> lo, hi |-> hi]
Plus(r) == Rep(r, 1, -1)
Star(r) == Rep(r, 0, -1)
WordB == [t |-> "wordb"]
\* the end of a match that may not be empty (the match after an empty one)
Advanced == [t |-> "advanced"]
\* (?P<name>r)
Group(name, r) == Cat(<<[t |-> "open", name |-> name], r, [t |-> "close", name |-> name]>>)

GroupNames == {"species", "cluster"}
NoCaps == [g \in GroupNames |-> <<0, 0>>]
NoMatch == [ok |-> FALSE, start |-> 0, end |-> 0, caps |-> NoCaps]

\* \b at position p (p is the index of the next character to read)
AtWordBoundary(s, p) ==
    LET before == p > 1 /\ s[p - 1] \in WordChar
        after == p <= Len(s) /\ s[p] \in WordChar
    IN before # after

SetMatches(h, c, ic) == CharIn(c, h.cs, ic) # h.neg

\* the number of characters from position p on that the class h matches
RunLength(h, s, p, ic) ==
    LET stop == CHOOSE j \in p..(Len(s) + 1) :
                    /\ j = Len(s) + 1 \/ ~SetMatches(h, s[j], ic)
                    /\ \A i \in p..(j - 1) : SetMatches(h, s[i], ic)
    IN stop - p

LitMatches(text, s, p, ic) ==
    /\ p + Len(text) - 1 <= Len(s)
    /\ \A i \in 1..Len(text) : CharIn(s[p + i - 1], {text[i]}, ic)

\* Match the regular expressions rs one after the other from position p.
\* The result is the first way to match that a backtracking search finds:
\* alternatives in order, repetitions greedy (the longest count first).
RECURSIVE Match(_, _, _, _, _, _)
Match(rs, s, start, p, ic, caps) ==
    IF Len(rs) = 0 THEN [ok |-> TRUE, start |-> start, end |-> p, caps |-> caps]
    ELSE LET h == Head(rs)
             rest == Tail(rs)
         IN CASE h.t = "set" ->
                   IF p <= Len(s) /\ SetMatches(h, s[p], ic)
                   THEN Match(rest, s, start, p + 1, ic, caps)
                   ELSE NoMatch
              [] h.t = "lit" ->
                   IF LitMatches(h.text, s, p, ic)
                   THEN Match(rest, s, start, p + Len(h.text), ic, caps)
                   ELSE NoMatch
              [] h.t = "cat" -> Match(h.rs \o rest, s, start, p, ic, caps)
              [] h.t = "alt" ->
                   IF Len(h.rs) = 0 THEN NoMatch
                   ELSE LET first == Match(<<Head(h.rs)>> \o rest, s, start, p, ic, caps)
                        IN IF first.ok THEN first
                           ELSE Match(<<Alt(Tail(h.rs))>> \o rest, s, start, p, ic, caps)
              [] h.t = "rep" /\ h.r.t = "set" ->
                   \* a repeated character class: the longest run first, then shorter
                   LET run == RunLength(h.r, s, p, ic)
                       top == IF h.hi >= 0 /\ h.hi < run THEN h.hi ELSE run
                       tries == {<<k, Match(rest, s, start, p + k, ic, caps)>> : k \in h.lo..top}
                       good == {x \in tries : x[2].ok}
                   IN IF good = {} THEN NoMatch
                      ELSE (CHOOSE x \in good : \A y \in good : y[1] <= x[1])[2]
              [] h.t = "rep" /\ h.r.t # "set" ->
                   LET lo1 == IF h.lo > 0 THEN h.lo - 1 ELSE 0
                       hi1 == IF h.hi > 0 THEN h.hi - 1 ELSE h.hi
                       more == IF h.hi = 0 THEN NoMatch
                               ELSE Match(<<h.r, Rep(h.r, lo1, hi1)>> \o rest, s, start, p, ic, caps)
                   IN IF more.ok THEN more
                      ELSE IF h.lo = 0 THEN Match(rest, s, start, p, ic, caps)
                      ELSE NoMatch
              [] h.t = "wordb" ->
                   IF AtWordBoundary(s, p) THEN Match(rest, s, start, p, ic, caps) ELSE NoMatch
              [] h.t = "advanced" ->
                   IF p > start THEN Match(rest, s, start, p, ic, caps) ELSE NoMatch
              [] h.t = "open" ->
                   Match(rest, s, start, p, ic, [caps EXCEPT ![h.name] = <<p, p>>])
              [] h.t = "close" ->
                   Match(rest, s, start, p, ic, [caps EXCEPT ![h.name] = <<caps[h.name][1], p>>])

MatchAt(rx, ic, s, p) == Match(<<rx>>, s, p, p, ic, NoCaps)

\* the match at q in a search that starts at p: after an empty match
\* (must_advance) a match at p itself has to be longer than the empty text
MatchFrom(rx, ic, s, q, p, must_advance) ==
    Match(IF must_advance /\ q = p THEN <<rx, Advanced>> ELSE <<rx>>, s, q, q, ic, NoCaps)

\* the leftmost position from p on where rx matches (0: nowhere)
NextMatchAfter(rx, ic, s, p, must_advance) ==
    IF \E q \in p..(Len(s) + 1) : MatchFrom(rx, ic, s, q, p, must_advance).ok
    THEN CHOOSE q \in p..(Len(s) + 1) :
             /\ MatchFrom(rx, ic, s, q, p, must_advance).ok
             /\ \A r \in p..(q - 1) : ~MatchFrom(rx, ic, s, r, p, must_advance).ok
    ELSE 0

NextMatch(rx, ic, s, p) == NextMatchAfter(rx, ic, s, p, FALSE)

\* the match at position q, the position NextMatchAfter gives
MatchFound(rx, ic, s, q, p, must_advance) ==
    IF q = 0 THEN NoMatch ELSE MatchFrom(rx, ic, s, q, p, must_advance)

\* the leftmost match from p on
FirstMatchAfter(rx, ic, s, p, must_advance) ==
    MatchFound(rx, ic, s, NextMatchAfter(rx, ic, s, p, must_advance), p, must_advance)

FirstMatch(rx, ic, s, p) == FirstMatchAfter(rx, ic, s, p, FALSE)

\* pattern.search(s): the match at the leftmost position that has one
re_search(rx, ic, s) == FirstMatch(rx, ic, s, 1)

\* re.sub(rx, "", s): every non-overlapping match, leftmost first, removed;
\* m is the leftmost match from p on.  After an empty match the search
\* goes on from the same position for a match that is not empty there.
RECURSIVE SubFrom(_, _, _, _, _)
SubFrom(rx, ic, s, p, m) ==
    IF ~m.ok THEN SubSeq(s, p, Len(s))
    ELSE SubSeq(s, p, m.start - 1)
         \o SubFrom(rx, ic, s, m.end, FirstMatchAfter(rx, ic, s, m.end, m.end = m.start))

re_sub(rx, ic, s) == SubFrom(rx, ic, s, 1, FirstMatch(rx, ic, s, 1))

\* s[a..b), positions as the matcher counts them
Slice(s, a, b) == SubSeq(s, a, b - 1)

\* ------------------------------------------------------- str methods

\* str.strip(chars)
RECURSIVE LStrip(_, _)
LStrip(s, cs) == IF Len(s) > 0 /\ s[1] \in cs THEN LStrip(Tail(s), cs) ELSE s
RECURSIVE RStrip(_, _)
RStrip(s, cs) == IF Len(s) > 0 /\ s[Len(s)] \in cs THEN RStrip(SubSeq(s, 1, Len(s) - 1), cs) ELSE s
Strip(s, cs) == RStrip(LStrip(s, cs), cs)

StartsWith(s, pre) == Len(s) >= Len(pre) /\ SubSeq(s, 1, Len(pre)) = pre

\* str.replace(old, new), old not empty
RECURSIVE str_replace(_, _, _)
str_replace(s, old, new) ==
    IF Len(s) = 0 THEN <<>>
    ELSE IF StartsWith(s, old) THEN new \o str_replace(SubSeq(s, Len(old) + 1, Len(s)), old, new)
    ELSE <<s[1]>> \o str_replace(Tail(s), old, new)

\* ------------------------------------------------------- clean_label

\* r"WP[\s_]\d{9}\.\d"  (no flags)
WPCodePattern ==
    Cat(<<Lit(<<"W", "P">>), Set(Whitespace \cup {"_"}), Rep(Set(Digit), 9, 9),
          Lit(<<".">>), Set(Digit)>>)

\* r"MULTISPECIES:\s*"
MultispeciesPattern ==
    Cat(<<Lit(<<"M", "U", "L", "T", "I", "S", "P", "E", "C", "I", "E", "S", ":">>),
          Star(Set(Whitespace))>>)

\* re.escape: the characters that get a backslash
\* (the last one is U+000B)
SpecialChars == {"(", ")", "[", "]", "{", "}", "?", "*", "+", "-", "|", "^", "$",
                 "\\", ".", "&", "~", "#", " ", "\t", "\n", "\r", "\f", ""}

RECURSIVE re_escape(_)
re_escape(s) ==
    IF Len(s) = 0 THEN <<>>
    ELSE (IF s[1] \in SpecialChars THEN <<"\\", s[1]>> ELSE <<s[1]>>) \o re_escape(Tail(s))

EscapedUnderscore == <<"\\", "_">>
SepClassText == <<"[", "\\", "s", "_", "]", "+">>

\* the pattern source text built for the protein name
protein_regex(protein_name) == str_replace(re_escape(protein_name), EscapedUnderscore, SepClassText)

\* Compiling that text.  Its atoms: a backslash and s is the class \s, a
\* backslash and any other character is that character, any other
\* character stands for itself; an atom followed by + is repeated.  (A
\* backslash always stands before the [ of SepClassText: re.escape leaves
\* the underscore alone, so \_ is the second half of an escaped backslash
\* and an underscore, and [ \s _ ] + are read one by one.)
AtomLength(pat) == IF pat[1] = "\\" /\ Len(pat) >= 2 THEN 2 ELSE 1

Atom(pat) ==
    IF AtomLength(pat) = 2
    THEN (IF pat[2] = "s" THEN Set(Whitespace) ELSE Lit(<<pat[2]>>))
    ELSE Lit(<<pat[1]>>)

Repeated(pat) == Len(pat) > AtomLength(pat) /\ pat[AtomLength(pat) + 1] = "+"

RECURSIVE CompileNodes(_)
CompileNodes(pat) ==
    IF Len(pat) = 0 THEN <<>>
    ELSE IF Repeated(pat)
         THEN <<Plus(Atom(pat))>> \o CompileNodes(SubSeq(pat, AtomLength(pat) + 2, Len(pat)))
    ELSE <<Atom(pat)>> \o CompileNodes(SubSeq(pat, AtomLength(pat) + 1, Len(pat)))

\* literals that follow one another are one literal
RECURSIVE JoinLiterals(_)
JoinLiterals(nodes) ==
    IF Len(nodes) < 2 THEN nodes
    ELSE IF nodes[1].t = "lit" /\ nodes[2].t = "lit"
         THEN JoinLiterals(<<Lit(nodes[1].text \o nodes[2].text)>> \o SubSeq(nodes, 3, Len(nodes)))
    ELSE <<nodes[1]>> \o JoinLiterals(Tail(nodes))

re_compile(pat) == Cat(JoinLiterals(CompileNodes(pat)))

\* r"\bunclassified\b"
UnclassifiedPattern ==
    Cat(<<WordB, Lit(<<"u", "n", "c", "l", "a", "s", "s", "i", "f", "i", "e", "d">>), WordB>>)

\* r"[-_]*Same[_\s]*Domains"
SameDomainsPattern ==
    Cat(<<Star(Set({"-", "_"})), Lit(<<"S", "a", "m", "e">>),
          Star(Set(Whitespace \cup {"_"})),
          Lit(<<"D", "o", "m", "a", "i", "n", "s">>)>>)

Alnum == Upper \cup Lower \cup Digit

\* r"---C\d+"
ClusterMarker == Cat(<<Lit(<<"-", "-", "-", "C">>), Plus(Set(Digit))>>)

\* r"(?P<species>[A-Za-z0-9]+(?:[_\s][A-Za-z0-9\.]+)*)[\s_-]+(?P<cluster>---C\d+)"
SpeciesClusterPattern ==
    Cat(<<Group("species",
                Cat(<<Plus(Set(Alnum)),
                      Star(Cat(<<Set(Whitespace \cup {"_"}),
                                 Plus(Set(Alnum \cup {"."}))>>))>>)),
          Plus(Set(Whitespace \cup {"_", "-"})),
          Group("cluster", ClusterMarker)>>)

Quotes == {"'", "\""}

\* label.strip("'\"")
StripQuotes(label) == Strip(label, Quotes)
\* re.sub(r"WP[\s_]\d{9}\.\d", "", label)
RemoveWPCodes(label) == re_sub(WPCodePattern, FALSE, label)
\* re.sub(r"MULTISPECIES:\s*", "", label, flags=re.IGNORECASE)
RemoveMultispecies(label) == re_sub(MultispeciesPattern, TRUE, label)
\* re.sub(protein_regex, "", label, flags=re.IGNORECASE)
RemoveProteinName(label, protein_name) ==
    re_sub(re_compile(protein_regex(protein_name)), TRUE, label)
\* re.sub(r"\bunclassified\b", "", label, flags=re.IGNORECASE)
RemoveUnclassified(label) == re_sub(UnclassifiedPattern, TRUE, label)
\* re.sub(r"[-_]*Same[_\s]*Domains", "", label, flags=re.IGNORECASE)
RemoveSameDomains(label) == re_sub(SameDomainsPattern, TRUE, label)
\* label.strip(" _")
StripSeparators(label) == Strip(label, {" ", "_"})

\* the stripping stages of clean_label, in the order of the source
StripNoise(label, protein_name) ==
    StripSeparators(
        RemoveSameDomains(
            RemoveUnclassified(
                RemoveProteinName(
                    RemoveMultispecies(RemoveWPCodes(StripQuotes(label))),
                    protein_name))))

\* match.group(name)
MatchGroup(s, m, name) == Slice(s, m.caps[name][1], m.caps[name][2])

\* Extract without .replace(" ", "_"): the spaces of the species stay
ExtractKeepingSpaces(stripped, match) ==
    IF match.ok
    THEN [found |-> TRUE,
          text |-> Strip(MatchGroup(stripped, match, "species"), Whitespace)
                   \o <<"_">>
                   \o Strip(MatchGroup(stripped, match, "cluster"), Whitespace)]
    ELSE [found |-> FALSE, text |-> stripped]

\* the end of clean_label, match being the result of pattern.search: whether
\* the species and the cluster were found, and the text returned
Extract(stripped, match) ==
    IF match.ok
    THEN [found |-> TRUE,
          text |-> str_replace(Strip(MatchGroup(stripped, match, "species"), Whitespace),
                               <<" ">>, <<"_">>)
                   \o <<"_">>
                   \o Strip(MatchGroup(stripped, match, "cluster"), Whitespace)]
    ELSE [found |-> FALSE, text |-> stripped]

ExtractFrom(stripped) == Extract(stripped, re_search(SpeciesClusterPattern, TRUE, stripped))

\* clean_label with the branch taken
CleanLabelResult(label, protein_name) == ExtractFrom(StripNoise(label, protein_name))

clean_label(label, protein_name) == CleanLabelResult(label, protein_name).text

\* whether clean_label finds the species+cluster pattern in the label
PatternFound(label, protein_name) == CleanLabelResult(label, protein_name).found

\* ----------------------------------------------- clean_newick_string

\* r"('([^']+---C\d+[^']*)'|\"([^\"]+---C\d+[^\"]*)\"|([A-Za-z0-9 _\.\-]+---C\d+))"
UnquotedChars == Alnum \cup {" ", "_", ".", "-"}

LabelPattern ==
    Alt(<<Cat(<<Set({"'"}), Plus(NotSet({"'"})), ClusterMarker, Star(NotSet({"'"})), Set({"'"})>>),
          Cat(<<Set({"\""}), Plus(NotSet({"\""})), ClusterMarker, Star(NotSet({"\""})), Set({"\""})>>),
          Cat(<<Plus(Set(UnquotedChars)), ClusterMarker>>)>>)

\* replacer(match): full_label = match.group(0), then clean_label
replacer(s, m, protein_name) == CleanLabelResult(Slice(s, m.start, m.end), protein_name)

\* pattern.sub(replacer, newick_str) from position p on, m being the
\* leftmost match from p on, r what replacer returns for it and tail the
\* result for the text after the match: the text with every match replaced,
\* and the calls of replacer made, in order (the span matched, the text
\* returned, and whether clean_label found the species+cluster pattern)
RECURSIVE SubLabelsFrom(_, _, _, _)
Splice(s, p, m, r, tail) ==
    [out |-> SubSeq(s, p, m.start - 1) \o r.text \o tail.out,
     calls |-> <<[span |-> Slice(s, m.start, m.end), text |-> r.text, found |-> r.found]>>
               \o tail.calls]

SubLabelsFrom(s, p, m, protein_name) ==
    IF ~m.ok THEN [out |-> SubSeq(s, p, Len(s)), calls |-> <<>>]
    ELSE Splice(s, p, m, replacer(s, m, protein_name),
                SubLabelsFrom(s, m.end,
                              FirstMatchAfter(LabelPattern, TRUE, s, m.end, m.end = m.start),
                              protein_name))

pattern_sub(s, protein_name) ==
    SubLabelsFrom(s, 1, FirstMatch(LabelPattern, TRUE, s, 1), protein_name)

clean_newick_string(newick_str, protein_name) == pattern_sub(newick_str, protein_name).out

\* ------------------------------------------------------------- inputs

\* protein_name='alkene_reductase', the default of clean_label and of
\* clean_newick_string and the value tree() passes
alkene_reductase == <<"a", "l", "k", "e", "n", "e", "_", "r", "e", "d", "u", "c", "t", "a", "s", "e">>
\* other values of the argument: a word, the empty name, and a name with a
\* backslash before its underscore
ProteinNames ==
    {alkene_reductase, <<"r", "e", "d", "u", "c", "t", "a", "s", "e">>, <<>>,
     <<"a", "l", "k", "e", "n", "e", "\\", "_", "r", "e", "d", "u", "c", "t", "a", "s", "e">>}

MaxSpeciesTokens == 2
MaxClusterDigits == 2
MaxLeaves == 3
MaxPasses == 2

RECURSIVE Join(_, _)
Join(parts, sep) ==
    IF Len(parts) = 0 THEN <<>>
    ELSE IF Len(parts) = 1 THEN parts[1]
    ELSE parts[1] \o sep \o Join(Tail(parts), sep)

Prefix(s, n) == SubSeq(s, 1, n)

AccessionPrefixes == {<<>>, <<"W", "P">>, <<"X", "P">>}
AccessionNumber == <<"0", "5", "8", "3", "2", "8", "2", "1", "4", ".", "1">>
SpeciesNames ==
    {<< <<"E", "s", "c", "h", "e", "r", "i", "c", "h", "i", "a">>, <<"c", "o", "l", "i">>,
        <<"K", "1", "2">>, <<"M", "G", "1", "6", "5", "5">> >>,
     << <<"S", "i", "n", "o", "r", "h", "i", "z", "o", "b", "i", "u", "m">>, <<"s", "p", ".">>,
        <<"S", "b", "3">>, <<"x", "1">> >>}
SpeciesChoices == {Prefix(n, k) : n \in SpeciesNames, k \in 0..MaxSpeciesTokens}
ClusterNumber == <<"2", "8", "5", "1", "7">>
ClusterChoices == {Prefix(ClusterNumber, k) : k \in 1..MaxClusterDigits}

\* The fields of a raw label as the tree builder writes it: an accession
\* code, the multi-organism marker, the protein name, "unclassified", the
\* species tokens, the cluster marker and the "Same Domains" suffix, joined
\* by underscores, by spaces or by no-break spaces (U+00A0) ("glue": a
\* separator stands before the marker).
RawLabels ==
    [acc : AccessionPrefixes, multi : BOOLEAN, protein : BOOLEAN, uncl : BOOLEAN,
     species : SpeciesChoices, glue : BOOLEAN, digits : ClusterChoices,
     same : BOOLEAN, sep : {"_", " ", " "}]

Opt(b, text) == IF b THEN <<text>> ELSE <<>>

Render(r) ==
    LET s == <<r.sep>>
        parts == Opt(r.acc # <<>>, r.acc \o s \o AccessionNumber)
                 \o Opt(r.multi, <<"M", "U", "L", "T", "I", "S", "P", "E", "C", "I", "E", "S", ":">>)
                 \o Opt(r.protein, <<"a", "l", "k", "e", "n", "e">> \o s
                                   \o <<"r", "e", "d", "u", "c", "t", "a", "s", "e">>)
                 \o Opt(r.uncl, <<"u", "n", "c", "l", "a", "s", "s", "i", "f", "i", "e", "d">>)
                 \o r.species
    IN Join(parts, s)
       \o (IF r.glue THEN s ELSE <<>>)
       \o <<"-", "-", "-", "C">> \o r.digits
       \o (IF r.same THEN <<"-", "-", "-", "S", "a", "m", "e">> \o s
                          \o <<"D", "o", "m", "a", "i", "n", "s">>
           ELSE <<>>)

\* the labels of the tree documents
\*   'NoClusterHere_protein'
\*   WP_058328214.1_E_coli_---C28---Same_Domains
\*   'MULTISPECIES: alkene reductase Rhizobium sp. ---C22'
\*   WP_058328214.1_unclassified---C2
\*   "E. coli (K12)---C7"
\*   A_---C1_B_---C2
LeafLabels ==
    {<<"'", "N", "o", "C", "l", "u", "s", "t", "e", "r", "H", "e", "r", "e", "_", "p", "r", "o",
       "t", "e", "i", "n", "'">>,
     <<"W", "P", "_", "0", "5", "8", "3", "2", "8", "2", "1", "4", ".", "1", "_", "E", "_", "c",
       "o", "l", "i", "_", "-", "-", "-", "C", "2", "8", "-", "-", "-", "S", "a", "m", "e", "_",
       "D", "o", "m", "a", "i", "n", "s">>,
     <<"'", "M", "U", "L", "T", "I", "S", "P", "E", "C", "I", "E", "S", ":", " ", "a", "l", "k",
       "e", "n", "e", " ", "r", "e", "d", "u", "c", "t", "a", "s", "e", " ", "R", "h", "i", "z",
       "o", "b", "i", "u", "m", " ", "s", "p", ".", " ", "-", "-", "-", "C", "2", "2", "'">>,
     <<"W", "P", "_", "0", "5", "8", "3", "2", "8", "2", "1", "4", ".", "1", "_", "u", "n", "c",
       "l", "a", "s", "s", "i", "f", "i", "e", "d", "-", "-", "-", "C", "2">>,
     <<"\"", "E", ".", " ", "c", "o", "l", "i", " ", "(", "K", "1", "2", ")", "-", "-", "-", "C",
       "7", "\"">>,
     <<"A", "_", "-", "-", "-", "C", "1", "_", "B", "_", "-", "-", "-", "C", "2">>}

BranchLength == <<":", "0", ".", "1">>

\* a tree document: (leaf:0.1,leaf:0.1,...);
NewickOf(leaves) ==
    <<"(">> \o Join([i \in 1..Len(leaves) |-> leaves[i] \o BranchLength], <<",">>) \o <<")", ";">>

LeafSeqs(n) == UNION {[1..k -> LeafLabels] : k \in 1..n}
TreeDocuments == {NewickOf(ls) : ls \in LeafSeqs(MaxLeaves)}
\* what the tree builder leaves in a file: a tree, or a tree with the line
\* ends of another platform
ToolOutputs ==
    {NewickOf(<<l>>) : l \in LeafLabels}
    \cup {<<"(", "A", "_", "-", "-", "-", "C", "1", ":", "0", ".", "1", ",", "\r", "\n",
             "B", "_", "-", "-", "-", "C", "2", ":", "0", ".", "2", ")", ";", "\r">>}

\* -------------------------------------------------------------- state

Unset == <<"<unset>">>
Absent == <<"<absent>">>

VARIABLES
    \* clean_label: the fields of the raw label, its text, the argument
    \* protein_name, the value returned, and whether the call has returned
    raw, label, protein_name, cleaned, lpc,
    \* clean_newick_string: the argument of the last call (of the first one,
    \* before it), its result, the number of calls made (each on the result
    \* of the one before), and for every span the last call matched: the
    \* span, what replacer returned for it, and whether clean_label found the
    \* species+cluster pattern in it
    newick_str, result, passes, replaced,
    \* align() and tree(): the function called, the position in it, the exit
    \* codes of the tools, the files (the output path and the path with the
    \* alternate extension), output the tree builder has not flushed yet,
    \* the files as the tools left them, the locals newick and
    \* cleaned_newick, whether the file was read and opened for writing, and
    \* the exception raised to the caller
    call, pc, muscle_rc, mega_rc, fs, late, tool_fs, newick, cleaned_newick,
    did_read, did_write, error

labelVars == <<raw, label, protein_name, cleaned, lpc>>
scanVars == <<newick_str, result, passes, replaced>>
runVars == <<call, pc, muscle_rc, mega_rc, fs, late, tool_fs, newick, cleaned_newick,
             did_read, did_write, error>>
vars == <<labelVars, scanVars, runVars>>

\* mega_output, and the same base name with the alternate extension
Paths == {"mega_output", "fallback"}
NotRun == -1

LabelIdle ==
    /\ raw = [acc |-> <<>>, multi |-> FALSE, protein |-> FALSE, uncl |-> FALSE,
              species |-> <<>>, glue |-> FALSE, digits |-> <<"2">>, same |-> FALSE, sep |-> "_"]
    /\ label = <<>>
    /\ protein_name = alkene_reductase
    /\ cleaned = Unset
    /\ lpc = "idle"

ScanIdle ==
    /\ newick_str = <<>>
    /\ result = Unset
    /\ passes = 0
    /\ replaced = <<>>

RunIdle ==
    /\ call = "none"
    /\ pc = "idle"
    /\ muscle_rc = NotRun
    /\ mega_rc = NotRun
    /\ fs = [p \in Paths |-> Absent]
    /\ late = Absent
    /\ tool_fs = [p \in Paths |-> Absent]
    /\ newick = Unset
    /\ cleaned_newick = Unset
    /\ did_read = FALSE
    /\ did_write = FALSE
    /\ error = "none"

\* ------------------------------------------------- clean_label, called

InitLabel ==
    /\ raw \in RawLabels
    /\ label = Render(raw)
    /\ protein_name \in ProteinNames
    /\ cleaned = Unset
    /\ lpc = "call"
    /\ ScanIdle
    /\ RunIdle

CleanLabel ==
    /\ lpc = "call"
    /\ cleaned' = clean_label(label, protein_name)
    /\ lpc' = "returned"
    /\ UNCHANGED <<raw, label, protein_name, scanVars, runVars>>

NextLabel == CleanLabel

SpecLabel == InitLabel /\ [][NextLabel]_vars

\* ----------------------------------------- clean_newick_string, called

InitScan ==
    /\ newick_str \in TreeDocuments
    /\ result = Unset
    /\ passes = 0
    /\ replaced = <<>>
    /\ LabelIdle
    /\ RunIdle

\* clean_newick_string(newick_str), then again on what it returned
Scan ==
    /\ passes < MaxPasses
    /\ LET arg == IF passes = 0 THEN newick_str ELSE result
           sub == pattern_sub(arg, alkene_reductase)
       IN /\ newick_str' = arg
          /\ result' = sub.out
          /\ replaced' = sub.calls
    /\ passes' = passes + 1
    /\ UNCHANGED <<labelVars, runVars>>

NextScan == Scan

SpecScan == InitScan /\ [][NextScan]_vars

\* -------------------------------------------------------------- align

\* a caller calls align(muscle_input, muscle_output) or tree(...)
InitRun ==
    /\ call \in {"align", "tree"}
    /\ pc = "subprocess_run"
    /\ muscle_rc = NotRun
    /\ mega_rc = NotRun
    /\ fs = [p \in Paths |-> Absent]
    /\ late = Absent
    /\ tool_fs = [p \in Paths |-> Absent]
    /\ newick = Unset
    /\ cleaned_newick = Unset
    /\ did_read = FALSE
    /\ did_write = FALSE
    /\ error = "none"
    /\ LabelIdle
    /\ ScanIdle

ExitCodes == {0, 1}

\* muscle_run = subprocess.run(muscle_cmd)
AlignRunMuscle ==
    /\ call = "align" /\ pc = "subprocess_run"
    /\ \E rc \in ExitCodes : muscle_rc' = rc
    /\ pc' = "returncode"
    /\ UNCHANGED <<call, mega_rc, fs, late, tool_fs, newick, cleaned_newick,
                   did_read, did_write, error, labelVars, scanVars>>

\* what subprocess.run raises before any program runs: the program cannot be
\* started (OSError stands for itself and its other subclasses), or an
\* argument cannot be passed to it (a NUL in a path: ValueError; a lone
\* surrogate: UnicodeEncodeError; not a str: TypeError)
LaunchErrors == {"FileNotFoundError", "PermissionError", "OSError", "ValueError",
                 "UnicodeEncodeError", "TypeError"}

\* subprocess.run(muscle_cmd) raises: the aligner has not run, muscle_run is
\* never bound
AlignRunMuscleRaises ==
    /\ call = "align" /\ pc = "subprocess_run"
    /\ \E e \in LaunchErrors : error' = e
    /\ pc' = "raised"
    /\ UNCHANGED <<call, muscle_rc, mega_rc, fs, late, tool_fs, newick, cleaned_newick,
                   did_read, did_write, labelVars, scanVars>>

\* if muscle_run.returncode != 0: raise RuntimeError("MUSCLE failed")
AlignCheckReturnCode ==
    /\ call = "align" /\ pc = "returncode"
    /\ IF muscle_rc # 0
       THEN error' = "RuntimeError" /\ pc' = "raised"
       ELSE error' = error /\ pc' = "returned"
    /\ UNCHANGED <<call, muscle_rc, mega_rc, fs, late, tool_fs, newick, cleaned_newick,
                   did_read, did_write, labelVars, scanVars>>

\* --------------------------------------------------------------- tree

\* mega_run = subprocess.run(mega_cmd, ...): the tree builder exits with
\* some code; it has left a tree at the output path, or none; it has left
\* one at the path with the alternate extension, or none; and output it has
\* written may still be on its way to the output path
TreeRunMega ==
    /\ call = "tree" /\ pc = "subprocess_run"
    /\ \E rc \in ExitCodes : mega_rc' = rc
    /\ \E out \in ToolOutputs \cup {Absent}, alt \in ToolOutputs \cup {Absent} :
          /\ fs' = [mega_output |-> out, fallback |-> alt]
          /\ tool_fs' = [mega_output |-> out, fallback |-> alt]
    /\ \E pending \in ToolOutputs \cup {Absent} : late' = pending
    /\ pc' = "returncode"
    /\ UNCHANGED <<call, muscle_rc, newick, cleaned_newick, did_read, did_write, error,
                   labelVars, scanVars>>

\* subprocess.run(mega_cmd, ...) raises because the tree builder cannot be
\* started: mega_run is never bound, no file is touched
TreeRunMegaNotStarted ==
    /\ call = "tree" /\ pc = "subprocess_run"
    /\ \E e \in LaunchErrors : error' = e
    /\ pc' = "raised"
    /\ UNCHANGED <<call, muscle_rc, mega_rc, fs, late, tool_fs, newick, cleaned_newick,
                   did_read, did_write, labelVars, scanVars>>

\* subprocess.run(mega_cmd, ..., text=True) raises because what the tree
\* builder printed cannot be decoded: the tree builder has run and left its
\* files, whatever its exit code, and mega_run is never bound
TreeRunMegaUndecodable ==
    /\ call = "tree" /\ pc = "subprocess_run"
    /\ \E out \in ToolOutputs \cup {Absent}, alt \in ToolOutputs \cup {Absent} :
          /\ fs' = [mega_output |-> out, fallback |-> alt]
          /\ tool_fs' = [mega_output |-> out, fallback |-> alt]
    /\ error' = "UnicodeDecodeError"
    /\ pc' = "raised"
    /\ UNCHANGED <<call, muscle_rc, mega_rc, late, newick, cleaned_newick, did_read,
                   did_write, labelVars, scanVars>>

\* TreeCheckReturnCode without the test of the return code
TreeIgnoreReturnCode ==
    /\ call = "tree" /\ pc = "returncode"
    /\ error' = error /\ pc' = "sleep"
    /\ UNCHANGED <<call, muscle_rc, mega_rc, fs, late, tool_fs, newick, cleaned_newick,
                   did_read, did_write, labelVars, scanVars>>

\* if mega_run.returncode != 0: raise RuntimeError("MEGA-CC failed")
TreeCheckReturnCode ==
    /\ call = "tree" /\ pc = "returncode"
    /\ IF mega_rc # 0
       THEN error' = "RuntimeError" /\ pc' = "raised"
       ELSE error' = error /\ pc' = "sleep"
    /\ UNCHANGED <<call, muscle_rc, mega_rc, fs, late, tool_fs, newick, cleaned_newick,
                   did_read, did_write, labelVars, scanVars>>

\* The pending output of the tree builder reaches the output path.  The
\* code waits 5 seconds for it, but nothing holds it to that time: it may
\* land between any two steps of tree() after subprocess.run has returned.
FlushLate ==
    /\ call = "tree"
    /\ pc \in {"returncode", "sleep", "exists", "read", "clean", "open_w", "write"}
    /\ late # Absent
    /\ fs' = [fs EXCEPT !["mega_output"] = late]
    /\ tool_fs' = [tool_fs EXCEPT !["mega_output"] = late]
    /\ late' = Absent
    /\ UNCHANGED <<call, pc, muscle_rc, mega_rc, newick, cleaned_newick, did_read,
                   did_write, error, labelVars, scanVars>>

\* time.sleep(5) returns
TreeSleep ==
    /\ call = "tree" /\ pc = "sleep"
    /\ pc' = "exists"
    /\ UNCHANGED <<call, muscle_rc, mega_rc, fs, late, tool_fs, newick, cleaned_newick,
                   did_read, did_write, error, labelVars, scanVars>>

\* if not os.path.exists(mega_output): raise FileNotFoundError(...)
TreeCheckExists ==
    /\ call = "tree" /\ pc = "exists"
    /\ IF fs["mega_output"] = Absent
       THEN error' = "FileNotFoundError" /\ pc' = "raised"
       ELSE error' = error /\ pc' = "read"
    /\ UNCHANGED <<call, muscle_rc, mega_rc, fs, late, tool_fs, newick, cleaned_newick,
                   did_read, did_write, labelVars, scanVars>>

\* reading in text mode: \r\n and \r become \n
UniversalNewlines(text) ==
    str_replace(str_replace(text, <<"\r", "\n">>, <<"\n">>), <<"\r">>, <<"\n">>)

\* with open(mega_output, 'r') as f: newick = f.read()
TreeRead ==
    /\ call = "tree" /\ pc = "read"
    /\ newick' = UniversalNewlines(fs["mega_output"])
    /\ did_read' = TRUE
    /\ pc' = "clean"
    /\ UNCHANGED <<call, muscle_rc, mega_rc, fs, late, tool_fs, cleaned_newick, did_write,
                   error, labelVars, scanVars>>

\* what open() raises
OpenErrors == {"OSError", "PermissionError", "IsADirectoryError", "FileNotFoundError"}

\* open raises, or read raises (the file cannot be read, or its bytes are
\* not text in the encoding of the locale): except Exception as e: ...; raise
TreeReadFails ==
    /\ call = "tree" /\ pc = "read"
    /\ \E e \in OpenErrors \cup {"UnicodeDecodeError"} : error' = e
    /\ pc' = "raised"
    /\ UNCHANGED <<call, muscle_rc, mega_rc, fs, late, tool_fs, newick, cleaned_newick,
                   did_read, did_write, labelVars, scanVars>>

\* cleaned_newick = clean_newick_string(newick, protein_name='alkene_reductase')
TreeClean ==
    /\ call = "tree" /\ pc = "clean"
    /\ cleaned_newick' = clean_newick_string(newick, alkene_reductase)
    /\ pc' = "open_w"
    /\ UNCHANGED <<call, muscle_rc, mega_rc, fs, late, tool_fs, newick, did_read, did_write,
                   error, labelVars, scanVars>>

\* open(mega_output, 'w'): the file is truncated
TreeOpenWrite ==
    /\ call = "tree" /\ pc = "open_w"
    /\ fs' = [fs EXCEPT !["mega_output"] = <<>>]
    /\ did_write' = TRUE
    /\ pc' = "write"
    /\ UNCHANGED <<call, muscle_rc, mega_rc, late, tool_fs, newick, cleaned_newick, did_read,
                   error, labelVars, scanVars>>

\* open(mega_output, 'w') raises; the file is as it was
TreeOpenWriteFails ==
    /\ call = "tree" /\ pc = "open_w"
    /\ \E e \in OpenErrors : error' = e
    /\ pc' = "raised"
    /\ UNCHANGED <<call, muscle_rc, mega_rc, fs, late, tool_fs, newick, cleaned_newick,
                   did_read, did_write, labelVars, scanVars>>

\* text over the beginning of there
Overlay(text, there) == text \o SubSeq(there, Len(text) + 1, Len(there))

\* What the output path holds after text is written through the file opened
\* at line 141.  The file is empty since then unless output of the tree
\* builder has landed: then it landed in the same file, and the text goes
\* over its beginning, or in a new file that took the path, and the text
\* goes to the file that has lost it.
WriteOutcomes(text, there) ==
    IF there = <<>> THEN {text} ELSE {Overlay(text, there), there}

\* f.write(cleaned_newick) and the close at the end of the with block
\* (text mode where os.linesep is \n: the text is written as it is)
TreeWrite ==
    /\ call = "tree" /\ pc = "write"
    /\ \E content \in WriteOutcomes(cleaned_newick, fs["mega_output"]) :
          fs' = [fs EXCEPT !["mega_output"] = content]
    /\ pc' = "returned"
    /\ UNCHANGED <<call, muscle_rc, mega_rc, late, tool_fs, newick, cleaned_newick, did_read,
                   did_write, error, labelVars, scanVars>>

\* the write or the flush at close raises OSError: some beginning of the
\* text, possibly none of it, has reached the file
TreeWriteFails ==
    /\ call = "tree" /\ pc = "write"
    /\ \E n \in 0..(Len(cleaned_newick) - 1) :
          \E content \in WriteOutcomes(SubSeq(cleaned_newick, 1, n), fs["mega_output"]) :
              fs' = [fs EXCEPT !["mega_output"] = content]
    /\ error' = "OSError"
    /\ pc' = "raised"
    /\ UNCHANGED <<call, muscle_rc, mega_rc, late, tool_fs, newick, cleaned_newick, did_read,
                   did_write, labelVars, scanVars>>

Next ==
    \/ AlignRunMuscle
    \/ AlignRunMuscleRaises
    \/ AlignCheckReturnCode
    \/ TreeRunMega
    \/ TreeRunMegaNotStarted
    \/ TreeRunMegaUndecodable
    \/ TreeCheckReturnCode
    \/ FlushLate
    \/ TreeSleep
    \/ TreeCheckExists
    \/ TreeRead
    \/ TreeReadFails
    \/ TreeClean
    \/ TreeOpenWrite
    \/ TreeOpenWriteFails
    \/ TreeWrite
    \/ TreeWriteFails

Spec == InitRun /\ [][Next]_vars

\* ------------------------------------------------ properties: clean_label

Contains(rx, ic, s) == re_search(rx, ic, s).ok

\* the texts of the non-overlapping matches of rx in s, in order
\* (re.findall); m is the leftmost match from the position reached
RECURSIVE FindAllFrom(_, _, _, _)
FindAllFrom(rx, ic, s, m) ==
    IF ~m.ok \/ m.start > Len(s) THEN <<>>
    ELSE <<Slice(s, m.start, m.end)>> \o FindAllFrom(rx, ic, s, FirstMatch(rx, ic, s, m.end))

FindAll(rx, ic, s) == FindAllFrom(rx, ic, s, FirstMatch(rx, ic, s, 1))

\* an accession code: WP, XP or NP in any letter case, a space or an
\* underscore, 9 digits, a dot, 1 digit
AnyAccessionCode ==
    Cat(<<Alt(<<Lit(<<"W", "P">>), Lit(<<"X", "P">>), Lit(<<"N", "P">>)>>),
          Set(Whitespace \cup {"_"}), Rep(Set(Digit), 9, 9), Lit(<<".">>), Set(Digit)>>)

\* the protein-name phrase: its underscores stand for underscores or spaces
PhraseOf(name) ==
    Cat([i \in 1..Len(name) |-> IF name[i] = "_" THEN Plus(Set(Whitespace \cup {"_"}))
                                ELSE Lit(<<name[i]>>)])

\* the word as a token: not inside a longer run of letters and digits
HasToken(s, word) ==
    \E p \in 1..Len(s) :
        /\ LitMatches(word, s, p, TRUE)
        /\ (p = 1 \/ s[p - 1] \notin Alnum)
        /\ (p + Len(word) > Len(s) \/ s[p + Len(word)] \notin Alnum)

\* s is x_---C<digits> with x not ending in an underscore, and holds no
\* other cluster marker
OneMarkerAtEnd(s, ms) ==
    /\ Len(ms) = 1
    /\ Len(s) > Len(ms[1]) + 1
    /\ SubSeq(s, Len(s) - Len(ms[1]) + 1, Len(s)) = ms[1]
    /\ s[Len(s) - Len(ms[1])] = "_"
    /\ s[Len(s) - Len(ms[1]) - 1] # "_"

EndsWithOneMarker(s) == OneMarkerAtEnd(s, FindAll(ClusterMarker, FALSE, s))

\* the species and the cluster that clean_label extracts from a label
\* (match: the result of pattern.search on the stripped label)
ParsedFields(stripped, match) ==
    [ok |-> match.ok,
     species |-> IF match.ok
                 THEN str_replace(Strip(MatchGroup(stripped, match, "species"), Whitespace),
                                  <<" ">>, <<"_">>)
                 ELSE <<>>,
     cluster |-> IF match.ok THEN Strip(MatchGroup(stripped, match, "cluster"), Whitespace)
                 ELSE <<>>]

ParsedFrom(stripped) ==
    ParsedFields(stripped, re_search(SpeciesClusterPattern, TRUE, stripped))

Parsed(lbl, name) == ParsedFrom(StripNoise(lbl, name))

\* C1: for a raw label with a cluster marker and a species descriptor, the
\* result of clean_label holds no accession code (WP, XP or NP, any case),
\* no MULTISPECIES: marker, no protein-name phrase, no "unclassified" token,
\* no Same Domains suffix, and ends with exactly one cluster marker that a
\* single underscore precedes.  (Stated for the labels in which clean_label
\* finds the species+cluster pattern: the others are returned as stripped.)
C1_CleanLabelCanonical ==
    (/\ lpc = "returned"
     /\ Contains(ClusterMarker, FALSE, label)
     /\ raw.species # <<>>
     /\ PatternFound(label, protein_name))
    => /\ ~Contains(AnyAccessionCode, TRUE, cleaned)
       /\ ~Contains(Lit(<<"M", "U", "L", "T", "I", "S", "P", "E", "C", "I", "E", "S", ":">>),
                    TRUE, cleaned)
       /\ protein_name # <<>> => ~Contains(PhraseOf(protein_name), TRUE, cleaned)
       /\ ~HasToken(cleaned, <<"u", "n", "c", "l", "a", "s", "s", "i", "f", "i", "e", "d">>)
       /\ ~Contains(SameDomainsPattern, TRUE, cleaned)
       /\ EndsWithOneMarker(cleaned)

\* the index of the first underscore of s (0: none)
FirstUnderscore(s) ==
    LET us == {i \in 1..Len(s) : s[i] = "_"} IN IF us = {} THEN 0 ELSE Min(us)

\* the species with its first token cut to one character when there are two
\* tokens or more and the second does not begin with "sp"
Abbreviated(species) ==
    LET u == FirstUnderscore(species)
    IN IF u > 0 /\ ~StartsWith(SubSeq(species, u + 1, Len(species)), <<"s", "p">>)
       THEN <<species[1]>> \o SubSeq(species, u, Len(species))
       ELSE species

AbbreviatedLabel(f) == Abbreviated(f.species) \o <<"_">> \o f.cluster

\* C4: the label emitted for a successfully parsed label is the species,
\* abbreviated to the first character of its first token when it has at
\* least two tokens and the second does not begin with "sp" and unchanged
\* otherwise, then an underscore and the cluster marker.
C4_SpeciesAbbreviated ==
    (lpc = "returned" /\ PatternFound(label, protein_name))
    => cleaned = AbbreviatedLabel(Parsed(label, protein_name))

\* --------------------------------------- properties: clean_newick_string

\* C2: a second call of clean_newick_string, on the result of the first,
\* returns its argument unchanged.
C2_ScanIdempotent == passes >= 2 => result = newick_str

Delimiters == {",", "(", ")", ":"}

\* the index of the quote that closes the one at p (0: none)
ClosingQuote(s, p) ==
    IF \E q \in (p + 1)..Len(s) : s[q] = s[p]
    THEN CHOOSE q \in (p + 1)..Len(s) : s[q] = s[p] /\ \A r \in (p + 1)..(q - 1) : s[r] # s[p]
    ELSE 0

\* the end of the unquoted label that starts at p: the next delimiter or quote
UnquotedEnd(s, p) ==
    CHOOSE q \in (p + 1)..(Len(s) + 1) :
        /\ q = Len(s) + 1 \/ s[q] \in Delimiters \cup Quotes
        /\ \A r \in (p + 1)..(q - 1) : s[r] \notin Delimiters \cup Quotes

\* The document cut into delimiters and labels: a label is the text between
\* a pair of quotes, the quotes included, or a run of characters that are
\* neither delimiters nor quotes.  free: the label bears a cluster marker,
\* so it may be rewritten.
Segment(s, p, q) ==
    [text |-> Slice(s, p, q), free |-> Contains(ClusterMarker, FALSE, Slice(s, p, q))]

RECURSIVE SegmentsFrom(_, _)
SegmentsFrom(s, p) ==
    IF p > Len(s) THEN <<>>
    ELSE IF s[p] \in Delimiters
         THEN <<[text |-> <<s[p]>>, free |-> FALSE]>> \o SegmentsFrom(s, p + 1)
    ELSE IF s[p] \in Quotes /\ ClosingQuote(s, p) # 0
         THEN <<Segment(s, p, ClosingQuote(s, p) + 1)>> \o SegmentsFrom(s, ClosingQuote(s, p) + 1)
    ELSE <<Segment(s, p, UnquotedEnd(s, p))>> \o SegmentsFrom(s, UnquotedEnd(s, p))

\* out, from position p on, is the segments from the k-th on, with some text
\* in the place of each free one
RECURSIVE Fits(_, _, _, _)
Fits(segs, k, out, p) ==
    IF k > Len(segs) THEN p = Len(out) + 1
    ELSE IF segs[k].free THEN \E q \in p..(Len(out) + 1) : Fits(segs, k + 1, out, q)
    ELSE /\ p + Len(segs[k].text) - 1 <= Len(out)
         /\ SubSeq(out, p, p + Len(segs[k].text) - 1) = segs[k].text
         /\ Fits(segs, k + 1, out, p + Len(segs[k].text))

\* C3: every character outside a label that bears a cluster marker is in
\* the output unchanged and in the same order: the output is the document
\* with nothing but its cluster-bearing labels replaced.
C3_OutsideLabelsUnchanged ==
    passes >= 1 => Fits(SegmentsFrom(newick_str, 1), 1, result, 1)

LabelDelimiters == {",", "(", ")", ":", ";"}

\* only letters, digits, underscores, dots and the hyphens, the C and the
\* digits of cluster markers
OnlyLabelCharacters(text) ==
    /\ \A i \in 1..Len(text) : text[i] \in Alnum \cup {"_", ".", "-"}
    /\ \A i \in 1..Len(text) :
          text[i] = "-" => \E q \in 1..Len(text) :
                              /\ MatchAt(ClusterMarker, TRUE, text, q).ok
                              /\ i \in q..(q + 2)

\* C8, as stated: whatever clean_newick_string substitutes for a span it
\* matched holds no comma, parenthesis, colon or semicolon and consists of
\* alphanumerics, underscores, dots and the cluster marker only, on both
\* branches of clean_label.
C8_ReplacementsClean ==
    \A i \in 1..Len(replaced) :
        /\ \A j \in 1..Len(replaced[i].text) : replaced[i].text[j] \notin LabelDelimiters
        /\ OnlyLabelCharacters(replaced[i].text)

\* the species text that clean_label emits: letters, digits, underscores and
\* dots; whitespace other than the space is kept as it is
SpeciesCharacters == Alnum \cup {"_", "."} \cup (Whitespace \ {" "})

\* the text is species_---C<digits> (the C in either case)
CanonicalAt(text, k) ==
    /\ text[k - 1] = "_"
    /\ MatchAt(ClusterMarker, TRUE, text, k).ok
    /\ MatchAt(ClusterMarker, TRUE, text, k).end = Len(text) + 1
    /\ \A i \in 1..(k - 2) : text[i] \in SpeciesCharacters

Canonical(text) == \E k \in 2..Len(text) : CanonicalAt(text, k)

\* C8, amended: when clean_label finds the species+cluster pattern in the
\* span, the text substituted holds no comma, parenthesis, colon or
\* semicolon: it is a species of alphanumerics, underscores and dots, an
\* underscore and the cluster marker.
C8_ParsedReplacementsClean ==
    \A i \in 1..Len(replaced) :
        replaced[i].found
        => /\ \A j \in 1..Len(replaced[i].text) : replaced[i].text[j] \notin LabelDelimiters
           /\ Canonical(replaced[i].text)

\* a call has replaced a quoted span that holds a colon and spaces, in
\* which clean_label found the species and the cluster
C8_Witness ==
    /\ passes >= 1
    /\ \E i \in 1..Len(replaced) :
          /\ replaced[i].found
          /\ replaced[i].span[1] \in Quotes
          /\ \E j \in 1..Len(replaced[i].span) : replaced[i].span[j] = ":"
          /\ \E j \in 1..Len(replaced[i].span) : replaced[i].span[j] = " "

\* the end of the run of label characters that starts at p
RunEnd(s, p) == p + RunLength(Set(UnquotedChars), s, p, FALSE)

\* the start of the next run of label characters from p on
RunStart(s, p) ==
    CHOOSE q \in p..(Len(s) + 1) :
        /\ q = Len(s) + 1 \/ s[q] \in UnquotedChars
        /\ \A r \in p..(q - 1) : s[r] \notin UnquotedChars

CleanedRun(run) ==
    IF Contains(ClusterMarker, FALSE, run) THEN clean_label(run, alkene_reductase) ELSE run

\* the document with every maximal run of letters, digits, spaces,
\* underscores, dots and hyphens that holds a cluster marker replaced by
\* clean_label of the whole run
RECURSIVE ReplaceRuns(_, _)
ReplaceRuns(s, p) ==
    IF p > Len(s) THEN <<>>
    ELSE IF s[p] \in UnquotedChars
         THEN CleanedRun(Slice(s, p, RunEnd(s, p))) \o ReplaceRuns(s, RunEnd(s, p))
    ELSE Slice(s, p, RunStart(s, p)) \o ReplaceRuns(s, RunStart(s, p))

\* C9: for a document without quotes, the output is the document with each
\* maximal run that holds a cluster marker replaced by clean_label of the
\* whole run, the text after the marker included.
C9_WholeRunsReplaced ==
    (passes >= 1 /\ \A i \in 1..Len(newick_str) : newick_str[i] \notin Quotes)
    => result = ReplaceRuns(newick_str, 1)

\* C10: the cluster markers of the output are those of the input, in the
\* same order and with the same digits.
C10_MarkersPreserved ==
    passes >= 1
    => FindAll(ClusterMarker, FALSE, result) = FindAll(ClusterMarker, FALSE, newick_str)

\* ------------------------------------------ properties: align and tree

\* tree() has not touched the output: nothing read, nothing normalised,
\* nothing written, the files as the tree builder left them
Untouched ==
    /\ ~did_read
    /\ newick = Unset
    /\ cleaned_newick = Unset
    /\ ~did_write
    /\ fs = tool_fs

\* the normalised content of a file: the text that reading it gives, with
\* its labels cleaned
Normalised(content) == clean_newick_string(UniversalNewlines(content), alkene_reductase)

\* C5: when the tree builder exits with 0 and the output path is absent
\* while the fallback path exists, the run does not fail for the missing
\* output, and when it ends without error the file at the fallback path
\* holds its normalised content.
C5_FallbackNormalised ==
    (/\ call = "tree"
     /\ pc \in {"raised", "returned"}
     /\ mega_rc = 0
     /\ tool_fs["mega_output"] = Absent
     /\ tool_fs["fallback"] # Absent)
    => /\ error # "FileNotFoundError"
       /\ error = "none" => fs["fallback"] = Normalised(tool_fs["fallback"])

\* C6: a non-zero exit code of the aligner makes align() raise; a non-zero
\* exit code of the tree builder, or an output file absent after the delay,
\* makes tree() raise, and in that run the output file is never read, never
\* normalised and never written; the same when the call that runs the tree
\* builder raises, whatever the exit code.
C6_FailFast ==
    /\ (call = "align" /\ muscle_rc \notin {0, NotRun} /\ pc # "returncode")
       => (pc = "raised" /\ error = "RuntimeError")
    /\ (call = "tree" /\ mega_rc \notin {0, NotRun})
       => /\ Untouched
          /\ pc # "returncode" => (pc = "raised" /\ error = "RuntimeError")
    /\ (call = "tree" /\ mega_rc = 0 /\ pc \notin {"returncode", "sleep", "exists"}
        /\ tool_fs["mega_output"] = Absent)
       => /\ Untouched
          /\ pc = "raised" /\ error = "FileNotFoundError"
    /\ (call = "tree" /\ mega_rc = NotRun /\ pc # "subprocess_run")
       => (Untouched /\ pc = "raised" /\ error \in LaunchErrors \cup {"UnicodeDecodeError"})

\* the tree builder has failed and left a tree at the output path; tree()
\* has raised
C6_Witness ==
    /\ call = "tree"
    /\ pc = "raised"
    /\ mega_rc = 1
    /\ fs["mega_output"] # Absent

\* C7: in every state of tree() the output file holds the whole raw tree
\* or the whole normalised tree.
C7_AllOrNothing ==
    (call = "tree" /\ tool_fs["mega_output"] # Absent)
    => fs["mega_output"] \in {tool_fs["mega_output"], Normalised(tool_fs["mega_output"])}

====
